---- MODULE Spec2Model ----
(***************************************************************************)
(* Model of the bank-sync-service synchronisation engine: the per-account  *)
(* lock (lib/lock), the dedupe store (lib/dedupe), the cursor (lib/cursor),*)
(* the event log (lib/events), the sync pipeline (workers/syncRunner), the *)
(* webhook handler (routes/webhook-gc) and the scheduler (lib/scheduler).  *)
(* The shared Redis store is modelled key by key. A step of an execution   *)
(* runs from one await at which another execution can change what it uses  *)
(* to the next; the executions interleave between steps.                   *)
(***************************************************************************)
EXTENDS Integers, Sequences, FiniteSets, TLC

VARIABLES
  sync,        \* per startSync invocation: its position and its locals
  lock,        \* gc:sync:lock:{account}  -> [value, ttl]
  dedupe,      \* gc:tx:dedupe:{externalRef} keys that exist
  streams,     \* the event streams: entries appended, per type
  cursor,      \* gc:cursor:{account}     -> CursorData
  checkpoint,  \* gc:checkpoint:{account} -> CursorData
  op,          \* gc:op:{operationId}     -> [status, processed]
  today,       \* the wall clock's calendar day
  faults,      \* store errors injected so far
  hist,        \* history: what happened, for stating the properties
  hook,        \* per webhook request: its position and its events
  replay,      \* gc:webhook:sig:{eventId} keys that exist
  whist,       \* history of the webhook gate
  entries,     \* one stream and its consumer group: the state of each entry
  consumer,    \* per consumeEvents loop: its position and its batch
  clock,       \* the time, in timer periods (30 s)
  tasks,       \* the ScheduledTask objects
  queue,       \* SmartScheduler.queue: the tasks in memory
  zset,        \* scheduler:queue: the serialised tasks in Redis
  limits,      \* gc:daily, gc:global and gc:ratelimit keys
  pass,        \* per processTasks pass: its position and locals
  shist,       \* history of the scheduler
  seed,        \* per scheduleDailySyncs pass: its position and locals
  seeded,      \* daily:{type}:{account}:{day} keys that exist
  isRunning    \* SmartScheduler.isRunning; the timer is set while it is true

groupVars == <<entries, consumer>>
webVars == <<hook, replay, whist, groupVars>>
seedVars == <<seed, seeded>>
schedVars == <<clock, tasks, queue, zset, limits, pass, shist, seedVars,
               isRunning>>
vars == <<sync, lock, dedupe, streams, cursor, checkpoint, op, today, faults,
          hist, webVars, schedVars>>

----------------------------------------------------------------------------
(* Bounds and program constants *)

Accounts == {"acc-1", "acc-2"}
Invocations == {1, 2}
EventIds == {"e1", "e2", "e3"}   \* webhook event ids
Hooks == {1, 2}                  \* webhook requests
Consumers == {1, 2}              \* consumeEvents loops of one group
TaskIds == {1, 2}                \* scheduler tasks, in creation order
Passes == {1, 2}                 \* processTasks passes that may overlap
Seeds == {1, 2}                  \* scheduleDailySyncs passes that may overlap

MaxDay == 2          \* calendar days the clock runs through
NumTx == 2           \* transactions the provider holds per account
LeaseUnits == 2      \* clock steps a lock lease lasts
MaxFaults == 1       \* store errors injected in one run

LOCK_RETRIES == 3    \* Lock.acquire: options.retries || 3
MAX_RETRIES == 3     \* executeSyncWithRetry: maxRetries
PROGRESS_EVERY == 10 \* executeSync: processed % 10 === 0
LOOKBACK_DAYS == 90  \* config.sync.defaultLookbackDays
\* config.sync.maxTransactionsPerSync as MAX_TRANSACTIONS_PER_SYNC sets it
\* (1000 when unset): a cap below the largest page.
maxTransactionsPerSync == 1
DAILY_LIMIT == 4     \* SmartScheduler.DAILY_LIMIT
MAX_REQUESTS_PER_MINUTE == 100
MAX_TASK_RETRIES == 3   \* processTasks: task.retryCount < 3
MINUTE == 2          \* 60000 ms, in timer periods of 30000 ms
MaxClock == 2        \* the clock stops here
DayLen == 2          \* timer periods in a day (scaled down)
MaxEntries == 2       \* entries added to the consumed stream in a run
MaxRestores == 1      \* calls of restoreFromCheckpoint per account in a run
MaxRetryAfter == 1   \* largest retry-after header, in timer periods
Horizon == 12        \* the clock of a run that waits for the backoff retries stops here

Days == 1..MaxDay
OptDates == 0..MaxDay            \* 0: the option is absent (falsy)
Refs == Accounts \X (1..NumTx)   \* external references, per account

\* The provider books transaction n of an account on day n.
BookedAt(r) == r[2]

----------------------------------------------------------------------------
(* lib/lock *)

NoLock == [value |-> 0, ttl |-> 0]

\* A SET that leaves out NX: it overwrites the key of another holder.
SetWithoutNX(stored, value, ttl) ==
  [ok |-> TRUE, store |-> [value |-> value, ttl |-> ttl]]

\* redis.set(key, value, 'EX', ttl, 'NX')
SetNX(stored, value, ttl) ==
  IF stored.value = 0
    THEN [ok |-> TRUE, store |-> [value |-> value, ttl |-> ttl]]
    ELSE [ok |-> FALSE, store |-> stored]

\* A release that deletes the key without comparing its value.
ReleaseWithoutCompare(stored, value) ==
  [result |-> IF stored.value # 0 THEN 1 ELSE 0, store |-> NoLock]

\* The Lua script of Lock.release: compare, then delete.
ReleaseScript(stored, value) ==
  IF stored.value = value
    THEN [result |-> 1, store |-> NoLock]
    ELSE [result |-> 0, store |-> stored]

----------------------------------------------------------------------------
(* lib/dedupe *)

\* A check that looks the marker up without setting it.
IsDuplicateWithoutSet(markers, externalRef) ==
  [isDupe |-> externalRef \in markers, store |-> markers]

\* isDuplicate: redis.set(key, '1', 'EX', DEDUPE_TTL, 'NX'); result === null
IsDuplicate(markers, externalRef) ==
  [isDupe |-> externalRef \in markers, store |-> markers \cup {externalRef}]

----------------------------------------------------------------------------
(* lib/cursor *)

\* No key: every field reads as undefined.
NoCursor == [sinceISO |-> 0, cursor |-> 0, lastTxnRef |-> 0, updatedAt |-> 0]

\* a || b of JavaScript on values whose falsy value is 0
Or(a, b) == IF a # 0 THEN a ELSE b

\* setCursor: the partial update merged onto the existing cursor.
SetCursor(existing, partial, now) ==
  [sinceISO   |-> Or(partial.sinceISO, Or(existing.sinceISO, now)),
   cursor     |-> Or(partial.cursor, existing.cursor),
   lastTxnRef |-> Or(partial.lastTxnRef, existing.lastTxnRef),
   updatedAt  |-> now]

----------------------------------------------------------------------------
(* lib/gcClient: the provider *)

RECURSIVE Filter(_, _, _, _, _)
Filter(a, n, from, to, day) ==
  IF n > NumTx THEN <<>>
  ELSE (IF n <= day /\ from <= BookedAt(<<a, n>>) /\ BookedAt(<<a, n>>) <= to
          THEN <<(<<a, n>>)>> ELSE <<>>)
       \o Filter(a, n + 1, from, to, day)

\* The transactions of the account that are booked by the given day, with a
\* booking date in the range.
Held(a, from, to, day) ==
  {r \in Refs : r[1] = a /\ r[2] <= day /\ from <= BookedAt(r) /\ BookedAt(r) <= to}

\* listTransactionPages: the one page the provider returns for the range.
ListTransactions(a, from, to, day) == Filter(a, 1, from, to, day)

----------------------------------------------------------------------------
(* lib/events: the consumer group *)

Messages == 1..MaxEntries

\* state: "none" (not in the stream), "new" (never delivered to the group),
\* "pending" (delivered to owner, not acknowledged), "acked".
NoEntry == [state |-> "none", owner |-> 0, handled |-> 0, failed |-> FALSE]

\* XREADGROUP ... STREAMS eventType '>': the entries never delivered to a
\* consumer of the group, oldest first.
RECURSIVE NeverDelivered(_, _)
NeverDelivered(es, m) ==
  IF m > MaxEntries THEN <<>>
  ELSE (IF es[m].state = "new" THEN <<m>> ELSE <<>>) \o NeverDelivered(es, m + 1)

----------------------------------------------------------------------------
(* routes/webhook-gc *)

NoRequest == [pc |-> "idle", events |-> <<>>, n |-> 0, status |-> 0,
              secret |-> 0, signature |-> 0]

\* GC_WEBHOOK_SECRET: 0 when it is not configured, else the key.
Secrets == {0, 1}
\* The x-signature header: 0 when the request has none, else the key its
\* HMAC over the body was made with.
Signatures == {0, 1, 2}

\* verifyWebhookSignature: false without a secret; the HMAC of the body
\* under the secret equals the header only if that was made with the same
\* key; timingSafeEqual throws on a missing or shorter header, which the
\* catch turns into false.
VerifyWebhookSignature(secret, signature) ==
  IF secret = 0 THEN FALSE
  ELSE IF signature = 0 THEN FALSE
  ELSE signature = secret

\* The events a request may carry: one or two event ids.
Batches == {<<e>> : e \in EventIds} \cup {<<e, f>> : e, f \in EventIds}

\* The provider's events: e1 and e2 report an updated account, e3 a
\* requisition.
ResourceType(e) == IF e = "e3" THEN "requisition" ELSE "account"

\* A gate that sets the marker without NX: every delivery passes.
ReplayGateWithoutNX(markers, eventId) ==
  [alreadyProcessed |-> FALSE, store |-> markers \cup {eventId}]

\* redis.set(replayKey, '1', 'EX', WEBHOOK_REPLAY_TTL, 'NX') === null
ReplayGate(markers, eventId) ==
  [alreadyProcessed |-> eventId \in markers, store |-> markers \cup {eventId}]

----------------------------------------------------------------------------
(* lib/scheduler *)

NoTask == [type |-> "none", accountId |-> "none", retryCount |-> 0,
           nextRunTime |-> 0, lastError |-> "none"]
NoSeed == [pc |-> "idle", day |-> 0, balanceScheduled |-> FALSE,
           transactionScheduled |-> FALSE]
NoPass == [pc |-> "idle", now |-> 0, ready |-> <<>>, idx |-> 0,
           error |-> [status |-> 0, retryAfter |-> 0]]

DayOf(t) == t \div DayLen            \* toISOString().split('T')[0]
MinuteOf(t) == t \div MINUTE         \* Math.floor(getTime() / 60000)
\* setDate(getDate() + 1); setHours(0, 0, 0, 0); the process runs in UTC.
NextMidnight(t) == (DayOf(t) + 1) * DayLen
DayKeys == 0..(Horizon \div DayLen)
MinuteKeys == 0..(Horizon \div MINUTE)
RetryAfters == 0..MaxRetryAfter

RECURSIVE Pow2(_)
Pow2(n) == IF n = 0 THEN 1 ELSE 2 * Pow2(n - 1)

\* canRunTask: the suspension gate, the daily gate, the global gate.
CanRunTask(lim, accountId, now) ==
  IF lim.ratelimit[accountId] # 0 /\ lim.ratelimit[accountId] > now
  THEN [allowed |-> FALSE, nextAvailableTime |-> lim.ratelimit[accountId],
        reason |-> "ratelimit"]
  ELSE IF lim.daily[accountId][DayOf(now)] >= DAILY_LIMIT
  THEN [allowed |-> FALSE, nextAvailableTime |-> NextMidnight(now),
        reason |-> "daily"]
  ELSE IF lim.global[MinuteOf(now)] >= MAX_REQUESTS_PER_MINUTE
  THEN [allowed |-> FALSE, nextAvailableTime |-> now + MINUTE,
        reason |-> "global"]
  ELSE [allowed |-> TRUE, nextAvailableTime |-> 0, reason |-> "none"]

\* JSON.stringify(task): the member of the sorted set.
Member(id, task) == [id |-> id, retryCount |-> task.retryCount,
                     nextRunTime |-> task.nextRunTime, lastError |-> task.lastError]

\* queue.sort((a, b) => a.nextRunTime - b.nextRunTime): a stable sort.
RECURSIVE InsertByNextRun(_, _, _)
InsertByNextRun(sorted, id, ts) ==
  IF sorted = <<>> THEN <<id>>
  ELSE IF ts[Head(sorted)].nextRunTime <= ts[id].nextRunTime
       THEN <<Head(sorted)>> \o InsertByNextRun(Tail(sorted), id, ts)
       ELSE <<id>> \o sorted

RECURSIVE SortByNextRun(_, _)
SortByNextRun(q, ts) ==
  IF q = <<>> THEN <<>>
  ELSE InsertByNextRun(SortByNextRun(SubSeq(q, 1, Len(q) - 1), ts), q[Len(q)], ts)

\* queue.filter(t => t.id !== task.id)
Without(q, id) == SelectSeq(q, LAMBDA t : t # id)

\* queue.filter(t => t.nextRunTime <= now)
ReadyTasks(q, ts, now) == SelectSeq(q, LAMBDA t : ts[t].nextRunTime <= now)

\* The scheduler after start-up, with count provider calls of each account
\* recorded for the day and used calls recorded for the minute.
SchedInitWith(count, used) ==
  /\ clock = 0
  /\ tasks = [t \in TaskIds |-> NoTask]
  /\ queue = <<>>
  /\ zset = {}
  /\ limits = [daily |-> [a \in Accounts |-> [d \in DayKeys |-> IF d = 0 THEN count ELSE 0]],
               global |-> [m \in MinuteKeys |-> IF m = 0 THEN used ELSE 0],
               ratelimit |-> [a \in Accounts |-> 0]]
  /\ pass = [p \in Passes |-> NoPass]
  /\ shist = [deniedDay |-> [t \in TaskIds |-> -1],
              calls |-> [t \in TaskIds |-> 0],
              lastTick |-> -1,
              failed |-> [t \in TaskIds |-> 0],
              errors |-> [t \in TaskIds |-> 0],
              done |-> [t \in TaskIds |-> FALSE],
              createdDay |-> [t \in TaskIds |-> -1],
              issued |-> [a \in Accounts |-> [d \in DayKeys |-> IF d = 0 THEN count ELSE 0]]]
  /\ seed = [s \in Seeds |-> NoSeed]
  /\ seeded = {}
  /\ isRunning = TRUE

SchedInit(count) == SchedInitWith(count, 0)

----------------------------------------------------------------------------
(* workers/syncRunner *)

Idle == [pc |-> "idle", accountId |-> "acc-1", fromDate |-> 0, toDate |-> 0,
         tries |-> 0, attempt |-> 0, to |-> 0, page |-> <<>>,
         k |-> 0, processed |-> 0, error |-> FALSE]

\* executeSync, lines 125-131: the effective date range.
FromDate(s, cur, day) == Or(s.fromDate, Or(cur.sinceISO, day - LOOKBACK_DAYS))
ToDate(s, day) == Or(s.toDate, day)

\* A retry that goes back to acquiring the lock for every attempt.
AttemptFailedReacquire(s) ==
  IF s.attempt < MAX_RETRIES
    THEN [s EXCEPT !.pc = "acquire", !.attempt = @ + 1,
                   !.page = <<>>, !.k = 0, !.processed = 0]
    ELSE [s EXCEPT !.pc = "release", !.error = TRUE,
                   !.page = <<>>, !.k = 0, !.processed = 0]

\* executeSyncWithRetry, the catch block: another attempt, or give up.
AttemptFailed(s) ==
  IF s.attempt < MAX_RETRIES
    THEN [s EXCEPT !.pc = "attempt", !.attempt = @ + 1,
                   !.page = <<>>, !.k = 0, !.processed = 0]
    ELSE [s EXCEPT !.pc = "release", !.error = TRUE,
                   !.page = <<>>, !.k = 0, !.processed = 0]

\* updateOperation: merges the updates if the operation exists.
UpdateStatus(o, status) == IF o.status = "none" THEN o ELSE [o EXCEPT !.status = status]
UpdateProcessed(o, n) == IF o.status = "none" THEN o ELSE [o EXCEPT !.processed = n]

Holding == {"attempt", "tx", "emit", "final", "release"}

\* The state after start-up on the given day, with count provider calls
\* already recorded for the day and a store that is about to refuse outage
\* commands beyond the MaxFaults errors of a run.
InitStores(day, outage) ==
  /\ sync = [i \in Invocations |-> Idle]
  /\ lock = [a \in Accounts |-> NoLock]
  /\ dedupe = {}
  /\ streams = [created |-> [r \in Refs |-> 0],
                completed |-> [i \in Invocations |-> 0],
                failed |-> [i \in Invocations |-> 0],
                updated |-> [e \in EventIds |-> 0]]
  /\ cursor = [a \in Accounts |-> NoCursor]
  /\ checkpoint = [a \in Accounts |-> NoCursor]
  /\ op = [i \in Invocations |-> [status |-> "none", processed |-> 0]]
  /\ today = day
  /\ faults = 0 - outage
  /\ hist = [lost |-> [i \in Invocations |-> FALSE],
             dedupFailed |-> FALSE,
             acquired |-> [i \in Invocations |-> 0],
             released |-> [i \in Invocations |-> 0],
             relResult |-> [i \in Invocations |-> "none"],
             relError |-> [i \in Invocations |-> FALSE],
             got429 |-> [i \in Invocations |-> <<>>],
             skipped |-> {},
             since |-> [a \in Accounts |-> <<>>],
             restored |-> [a \in Accounts |-> <<>>],
             emitted |-> [i \in Invocations |-> 0],
             transactionCount |-> [i \in Invocations |-> 0],
             held |-> [i \in Invocations |-> {}]]
  /\ hook = [h \in Hooks |-> NoRequest]
  /\ replay = {}
  /\ whist = [runs |-> [e \in EventIds |-> 0],
              delivered |-> [e \in EventIds |-> 0],
              ignored |-> [e \in EventIds |-> 0],
              threw |-> [e \in EventIds |-> 0]]

\* The stream is empty and every consumeEvents loop is about to read.
GroupInit(autoAck) ==
  /\ entries = [m \in Messages |-> NoEntry]
  /\ consumer = [c \in Consumers |->
       [pc |-> "read", batch |-> <<>>, n |-> 0, autoAck |-> autoAck, polls |-> 0]]

InitCore(day, outage) == InitStores(day, outage) /\ GroupInit(TRUE)

InitDuring(day, count, outage) == InitCore(day, outage) /\ SchedInit(count)

InitWith(day, count) == InitDuring(day, count, 0)
InitOn(day) == InitWith(day, 0)
Init == InitOn(1)

\* POST /sync/:accountId: not locked, so the operation is created and
\* startSync is started.
Request(i, a, f, t) ==
  /\ sync[i].pc = "idle"
  /\ \A j \in Invocations : j < i => sync[j].pc # "idle"   \* numbered as they arrive
  /\ lock[a].value = 0
  /\ sync' = [sync EXCEPT ![i] = [@ EXCEPT !.pc = "start", !.accountId = a,
                                            !.fromDate = f, !.toDate = t]]
  /\ op' = [op EXCEPT ![i] = [status |-> "pending", processed |-> 0]]
  /\ UNCHANGED <<webVars, schedVars, lock, dedupe, streams, cursor, checkpoint, today, faults, hist>>

\* startSync, lines 28-31.
StartSync(i) ==
  /\ sync[i].pc = "start"
  /\ op' = [op EXCEPT ![i] = UpdateStatus(@, "in_progress")]
  /\ sync' = [sync EXCEPT ![i] = [@ EXCEPT !.pc = "acquire", !.tries = 0]]
  /\ UNCHANGED <<webVars, schedVars, lock, dedupe, streams, cursor, checkpoint, today, faults, hist>>

\* An acquire whose caller goes on to the protected function when the
\* tries are used up.
AcquireTryThenRun(i, fault) ==
  LET s == sync[i]
      a == s.accountId
      r == SetNX(lock[a], i, LeaseUnits)
      got == ~fault /\ r.ok
  IN /\ s.pc = "acquire"
     /\ fault => faults < MaxFaults
     /\ faults' = IF fault THEN faults + 1 ELSE faults
     /\ lock' = IF fault THEN lock ELSE [lock EXCEPT ![a] = r.store]
     /\ sync' = [sync EXCEPT ![i] =
          IF got THEN [s EXCEPT !.pc = "attempt", !.attempt = 1, !.tries = 0]
          ELSE IF s.tries + 1 < LOCK_RETRIES THEN [s EXCEPT !.tries = @ + 1]
          ELSE [s EXCEPT !.pc = "attempt", !.attempt = 1, !.tries = @ + 1]]
     /\ hist' = IF got THEN [hist EXCEPT !.acquired[i] = @ + 1] ELSE hist
     /\ UNCHANGED <<webVars, schedVars, dedupe, streams, cursor, checkpoint, op, today>>

\* One iteration of the loop of Lock.acquire; fault: redis.set throws.
AcquireTry(i, fault) ==
  LET s == sync[i]
      a == s.accountId
      r == SetNX(lock[a], i, LeaseUnits)
      got == ~fault /\ r.ok
  IN /\ s.pc = "acquire"
     /\ fault => faults < MaxFaults
     /\ faults' = IF fault THEN faults + 1 ELSE faults
     /\ lock' = IF fault THEN lock ELSE [lock EXCEPT ![a] = r.store]
     /\ sync' = [sync EXCEPT ![i] =
          IF got THEN [s EXCEPT !.pc = "attempt", !.attempt = 1, !.tries = 0]
          ELSE IF s.tries + 1 < LOCK_RETRIES THEN [s EXCEPT !.tries = @ + 1]
          ELSE [s EXCEPT !.pc = "markFailed", !.tries = @ + 1, !.error = TRUE]]
     /\ hist' = IF got THEN [hist EXCEPT !.acquired[i] = @ + 1] ELSE hist
     /\ UNCHANGED <<webVars, schedVars, dedupe, streams, cursor, checkpoint, op, today>>

\* executeSync up to the page: getCursor, the range, listTransactionPages.
\* ok = FALSE: the provider call throws.
ExecuteSyncBegin(i, ok) ==
  LET s == sync[i]
      from == FromDate(s, cursor[s.accountId], today)
      to == ToDate(s, today)
  IN /\ s.pc = "attempt"
     /\ sync' = [sync EXCEPT ![i] =
          IF ok THEN [s EXCEPT !.pc = "tx", !.to = to,
                               !.page = ListTransactions(s.accountId, from, to, today),
                               !.k = 1, !.processed = 0]
          ELSE AttemptFailed(s)]
     /\ hist' = IF ok THEN [hist EXCEPT !.held[i] = Held(s.accountId, from, to, today)]
                ELSE hist
     /\ UNCHANGED <<webVars, schedVars, lock, dedupe, streams, cursor, checkpoint, op, today, faults>>

\* executeSync, line 138: the provider answers the fetch with 429 and a
\* retry-after header; listTransactions rethrows, and the catch block of
\* executeSyncWithRetry treats it as any other failed attempt.
Fetch429(i, retryAfter) ==
  LET s == sync[i]
  IN /\ s.pc = "attempt"
     /\ sync' = [sync EXCEPT ![i] = AttemptFailed(s)]
     /\ hist' = [hist EXCEPT !.got429[i] = Append(@, retryAfter)]
     /\ UNCHANGED <<webVars, schedVars, lock, dedupe, streams, cursor, checkpoint, op, today, faults>>

\* An isDuplicate that lets the store error through: the attempt fails.
CheckDuplicateThrows(i, fault) ==
  LET s == sync[i]
      d == IsDuplicate(dedupe, s.page[s.k])
  IN /\ s.pc = "tx"
     /\ s.k <= Len(s.page)
     /\ fault => faults < MaxFaults
     /\ faults' = IF fault THEN faults + 1 ELSE faults
     /\ dedupe' = IF fault THEN dedupe ELSE d.store
     /\ hist' = IF fault THEN [hist EXCEPT !.dedupFailed = TRUE]
                ELSE IF d.isDupe THEN [hist EXCEPT !.skipped = @ \cup {s.page[s.k]}]
                ELSE hist
     /\ sync' = [sync EXCEPT ![i] =
          IF fault THEN AttemptFailed(s)
          ELSE IF d.isDupe THEN [s EXCEPT !.k = @ + 1] ELSE [s EXCEPT !.pc = "emit"]]
     /\ UNCHANGED <<webVars, schedVars, lock, streams, cursor, checkpoint, op, today>>

\* executeSync, line 159: isDuplicate; fault: the store call throws and
\* isDuplicate answers "not duplicate".
CheckDuplicate(i, fault) ==
  LET s == sync[i]
      d == IsDuplicate(dedupe, s.page[s.k])
      dupe == ~fault /\ d.isDupe
  IN /\ s.pc = "tx"
     /\ s.k <= Len(s.page)
     /\ fault => faults < MaxFaults
     /\ faults' = IF fault THEN faults + 1 ELSE faults
     /\ dedupe' = IF fault THEN dedupe ELSE d.store
     /\ hist' = IF fault THEN [hist EXCEPT !.dedupFailed = TRUE]
                ELSE IF dupe THEN [hist EXCEPT !.skipped = @ \cup {s.page[s.k]}]
                ELSE hist
     /\ sync' = [sync EXCEPT ![i] =
          IF dupe THEN [s EXCEPT !.k = @ + 1] ELSE [s EXCEPT !.pc = "emit"]]
     /\ UNCHANGED <<webVars, schedVars, lock, streams, cursor, checkpoint, op, today>>

\* An emit loop that leaves the page as soon as the cap is reached.
EmitTxStopsAtCap(i, outcome) ==
  LET s == sync[i]
      ref == s.page[s.k]
      n == s.processed + 1
  IN /\ s.pc = "emit"
     /\ outcome # "ok" => faults < MaxFaults
     /\ faults' = IF outcome # "ok" THEN faults + 1 ELSE faults
     /\ streams' = IF outcome = "lost" THEN streams
                   ELSE [streams EXCEPT !.created[ref] = @ + 1]
     /\ sync' = [sync EXCEPT ![i] =
          IF outcome = "ok"
            THEN [s EXCEPT !.pc = "tx", !.processed = n,
                           !.k = IF n >= maxTransactionsPerSync
                                   THEN Len(s.page) + 1 ELSE @ + 1]
          ELSE AttemptFailed(s)]
     /\ op' = IF outcome = "ok" /\ n % PROGRESS_EVERY = 0
                THEN [op EXCEPT ![i] = UpdateProcessed(@, n)] ELSE op
     /\ hist' = IF outcome = "lost" THEN hist
                ELSE [hist EXCEPT !.emitted[i] = @ + 1]
     /\ UNCHANGED <<webVars, schedVars, lock, dedupe, cursor, checkpoint, today>>

\* executeSync, lines 187-193: emit bank.tx.created, count, report progress.
\* outcome: "ok"; "lost": xadd throws; "unpublished": xadd appends and
\* publish throws.
EmitTx(i, outcome) ==
  LET s == sync[i]
      ref == s.page[s.k]
      n == s.processed + 1
  IN /\ s.pc = "emit"
     /\ outcome # "ok" => faults < MaxFaults
     /\ faults' = IF outcome # "ok" THEN faults + 1 ELSE faults
     /\ streams' = IF outcome = "lost" THEN streams
                   ELSE [streams EXCEPT !.created[ref] = @ + 1]
     /\ sync' = [sync EXCEPT ![i] =
          IF outcome = "ok" THEN [s EXCEPT !.pc = "tx", !.k = @ + 1, !.processed = n]
          ELSE AttemptFailed(s)]
     /\ op' = IF outcome = "ok" /\ n % PROGRESS_EVERY = 0
                THEN [op EXCEPT ![i] = UpdateProcessed(@, n)] ELSE op
     /\ hist' = IF outcome = "lost" THEN hist
                ELSE [hist EXCEPT !.emitted[i] = @ + 1]
     /\ UNCHANGED <<webVars, schedVars, lock, dedupe, cursor, checkpoint, today>>

\* executeSync, lines 197-203: after the page, the cursor update; fault:
\* setCursor throws. The one page is the last, so the loop ends here
\* whether or not the cap of lines 206-213 is reached.
AdvanceCursor(i, fault) ==
  LET s == sync[i]
      a == s.accountId
      last == s.page[Len(s.page)]
      c == SetCursor(cursor[a], [sinceISO |-> s.to, cursor |-> 0,
                                 lastTxnRef |-> last[2]], today)
      written == ~fault /\ Len(s.page) > 0
  IN /\ s.pc = "tx"
     /\ s.k > Len(s.page)
     /\ fault => faults < MaxFaults /\ Len(s.page) > 0
     /\ faults' = IF fault THEN faults + 1 ELSE faults
     /\ cursor' = IF written THEN [cursor EXCEPT ![a] = c] ELSE cursor
     /\ checkpoint' = IF written THEN [checkpoint EXCEPT ![a] = c] ELSE checkpoint
     /\ sync' = [sync EXCEPT ![i] =
          IF fault THEN AttemptFailed(s) ELSE [s EXCEPT !.pc = "final"]]
     /\ UNCHANGED <<webVars, schedVars, lock, dedupe, streams, op, today, hist>>

\* executeSync, lines 216-224: the final cursor and operation updates.
FinalCursor(i, fault) ==
  LET s == sync[i]
      a == s.accountId
      c == SetCursor(cursor[a], [sinceISO |-> s.to, cursor |-> 0,
                                 lastTxnRef |-> 0], today)
  IN /\ s.pc = "final"
     /\ fault => faults < MaxFaults
     /\ faults' = IF fault THEN faults + 1 ELSE faults
     /\ cursor' = IF fault THEN cursor ELSE [cursor EXCEPT ![a] = c]
     /\ checkpoint' = IF fault THEN checkpoint ELSE [checkpoint EXCEPT ![a] = c]
     /\ op' = IF fault THEN op ELSE [op EXCEPT ![i] = UpdateProcessed(@, s.processed)]
     /\ hist' = IF fault THEN hist
                ELSE [hist EXCEPT !.since[a] = Append(@, c.sinceISO)]
     /\ sync' = [sync EXCEPT ![i] =
          IF fault THEN AttemptFailed(s) ELSE [s EXCEPT !.pc = "release"]]
     /\ UNCHANGED <<webVars, schedVars, lock, dedupe, streams, today>>

\* setCursor's own store errors. stage "get": the read of getCursor throws,
\* getCursor answers null (lines 23-26) and the update is merged onto
\* nothing; stage "save": the cursor key is written and saveCheckpoint
\* throws (line 48), so setCursor throws with the key already changed.
SetCursorPartly(existing, stored, partial, now, stage) ==
  LET c == SetCursor(IF stage = "get" THEN NoCursor ELSE existing, partial, now)
  IN [cursor |-> c, checkpoint |-> IF stage = "save" THEN stored ELSE c,
      threw |-> stage = "save"]

SetCursorStages == {"get", "save"}

\* executeSync, lines 197-203, with a store error inside setCursor.
AdvanceCursorPartly(i, stage) ==
  LET s == sync[i]
      a == s.accountId
      last == s.page[Len(s.page)]
      r == SetCursorPartly(cursor[a], checkpoint[a],
                           [sinceISO |-> s.to, cursor |-> 0,
                            lastTxnRef |-> last[2]], today, stage)
  IN /\ s.pc = "tx"
     /\ s.k > Len(s.page)
     /\ Len(s.page) > 0
     /\ faults < MaxFaults
     /\ faults' = faults + 1
     /\ cursor' = [cursor EXCEPT ![a] = r.cursor]
     /\ checkpoint' = [checkpoint EXCEPT ![a] = r.checkpoint]
     /\ sync' = [sync EXCEPT ![i] =
          IF r.threw THEN AttemptFailed(s) ELSE [s EXCEPT !.pc = "final"]]
     /\ UNCHANGED <<webVars, schedVars, lock, dedupe, streams, op, today, hist>>

\* executeSync, lines 216-224, with a store error inside setCursor.
FinalCursorPartly(i, stage) ==
  LET s == sync[i]
      a == s.accountId
      r == SetCursorPartly(cursor[a], checkpoint[a],
                           [sinceISO |-> s.to, cursor |-> 0,
                            lastTxnRef |-> 0], today, stage)
  IN /\ s.pc = "final"
     /\ faults < MaxFaults
     /\ faults' = faults + 1
     /\ cursor' = [cursor EXCEPT ![a] = r.cursor]
     /\ checkpoint' = [checkpoint EXCEPT ![a] = r.checkpoint]
     /\ op' = IF r.threw THEN op ELSE [op EXCEPT ![i] = UpdateProcessed(@, s.processed)]
     /\ hist' = IF r.threw THEN hist
                ELSE [hist EXCEPT !.since[a] = Append(@, r.cursor.sinceISO)]
     /\ sync' = [sync EXCEPT ![i] =
          IF r.threw THEN AttemptFailed(s) ELSE [s EXCEPT !.pc = "release"]]
     /\ UNCHANGED <<webVars, schedVars, lock, dedupe, streams, today>>

\* restoreFromCheckpoint, lines 65-82: null when the checkpoint key is
\* absent; otherwise the checkpoint goes through setCursor, which merges it
\* onto the cursor and saves the result as the checkpoint, and the parsed
\* checkpoint is returned. (The 30 days of the checkpoint key outlast
\* MaxDay.)
RestoreFromCheckpoint(a) ==
  LET chk == checkpoint[a]
      c == SetCursor(cursor[a], chk, today)
  IN /\ Len(hist.restored[a]) < MaxRestores
     /\ hist' = [hist EXCEPT !.restored[a] = Append(@, chk)]
     /\ IF chk = NoCursor
        THEN UNCHANGED <<cursor, checkpoint>>
        ELSE /\ cursor' = [cursor EXCEPT ![a] = c]
             /\ checkpoint' = [checkpoint EXCEPT ![a] = c]
     /\ UNCHANGED <<webVars, schedVars, sync, lock, dedupe, streams, op, today, faults>>

\* A release that sits after the protected function instead of in a finally
\* block: it is skipped when the function throws.
ReleaseOnlyOnSuccess(i, fault) ==
  LET s == sync[i]
      a == s.accountId
      r == ReleaseScript(lock[a], i)
      skip == s.error
  IN /\ s.pc = "release"
     /\ fault => faults < MaxFaults /\ ~skip
     /\ faults' = IF fault THEN faults + 1 ELSE faults
     /\ lock' = IF fault \/ skip THEN lock ELSE [lock EXCEPT ![a] = r.store]
     /\ hist' = IF skip THEN hist
                ELSE [hist EXCEPT !.released[i] = @ + 1,
                                  !.relResult[i] = IF ~fault /\ r.result = 1
                                                     THEN "true" ELSE "false",
                                  !.relError[i] = fault]
     /\ sync' = [sync EXCEPT ![i] =
          [s EXCEPT !.pc = IF s.error THEN "markFailed" ELSE "markCompleted"]]
     /\ UNCHANGED <<webVars, schedVars, dedupe, streams, cursor, checkpoint, op, today>>

\* withAccountLock, finally: lock.release(); fault: redis.eval throws, and
\* release catches the error and answers false.
Release(i, fault) ==
  LET s == sync[i]
      a == s.accountId
      r == ReleaseScript(lock[a], i)
  IN /\ s.pc = "release"
     /\ fault => faults < MaxFaults
     /\ faults' = IF fault THEN faults + 1 ELSE faults
     /\ lock' = IF fault THEN lock ELSE [lock EXCEPT ![a] = r.store]
     /\ hist' = [hist EXCEPT !.released[i] = @ + 1,
                             !.relResult[i] = IF ~fault /\ r.result = 1
                                                THEN "true" ELSE "false",
                             !.relError[i] = fault]
     /\ sync' = [sync EXCEPT ![i] =
          [s EXCEPT !.pc = IF s.error THEN "markFailed" ELSE "markCompleted"]]
     /\ UNCHANGED <<webVars, schedVars, dedupe, streams, cursor, checkpoint, op, today>>

\* startSync, lines 43-46.
MarkCompleted(i) ==
  /\ sync[i].pc = "markCompleted"
  /\ op' = [op EXCEPT ![i] = UpdateStatus(@, "completed")]
  /\ sync' = [sync EXCEPT ![i] = [@ EXCEPT !.pc = "emitCompleted"]]
  /\ UNCHANGED <<webVars, schedVars, lock, dedupe, streams, cursor, checkpoint, today, faults, hist>>

\* startSync, lines 49-58: emit bank.sync.completed.
EmitCompleted(i, outcome) ==
  /\ sync[i].pc = "emitCompleted"
  /\ outcome # "ok" => faults < MaxFaults
  /\ faults' = IF outcome # "ok" THEN faults + 1 ELSE faults
  /\ streams' = IF outcome = "lost" THEN streams
                ELSE [streams EXCEPT !.completed[i] = @ + 1]
  /\ sync' = [sync EXCEPT ![i] =
       [@ EXCEPT !.pc = IF outcome = "ok" THEN "done" ELSE "markFailed"]]
  \* transactionCount: operation?.processed || 0
  /\ hist' = IF outcome = "lost" THEN hist
             ELSE [hist EXCEPT !.transactionCount[i] = op[i].processed]
  /\ UNCHANGED <<webVars, schedVars, lock, dedupe, cursor, checkpoint, op, today>>

\* startSync, the catch block, lines 65-69.
MarkFailed(i) ==
  /\ sync[i].pc = "markFailed"
  /\ op' = [op EXCEPT ![i] = UpdateStatus(@, "failed")]
  /\ sync' = [sync EXCEPT ![i] = [@ EXCEPT !.pc = "emitFailed"]]
  /\ UNCHANGED <<webVars, schedVars, lock, dedupe, streams, cursor, checkpoint, today, faults, hist>>

\* startSync, the catch block, lines 72-81: emit bank.sync.failed and rethrow.
EmitFailed(i, outcome) ==
  /\ sync[i].pc = "emitFailed"
  /\ outcome # "ok" => faults < MaxFaults
  /\ faults' = IF outcome # "ok" THEN faults + 1 ELSE faults
  /\ streams' = IF outcome = "lost" THEN streams
                ELSE [streams EXCEPT !.failed[i] = @ + 1]
  /\ sync' = [sync EXCEPT ![i] = [@ EXCEPT !.pc = "done"]]
  /\ UNCHANGED <<webVars, schedVars, lock, dedupe, cursor, checkpoint, op, today, hist>>

\* The process running the invocation dies while it holds the lock.
Crash(i) ==
  /\ sync[i].pc \in Holding
  /\ sync' = [sync EXCEPT ![i] = [@ EXCEPT !.pc = "crashed"]]
  /\ UNCHANGED <<webVars, schedVars, lock, dedupe, streams, cursor, checkpoint, op, today, faults, hist>>

\* Redis counts the lease down and removes the key when it runs out.
LeaseTick(a) ==
  /\ lock[a].value # 0
  /\ lock' = [lock EXCEPT ![a] = IF @.ttl > 1 THEN [@ EXCEPT !.ttl = @ - 1] ELSE NoLock]
  /\ hist' = IF lock[a].ttl > 1 THEN hist ELSE [hist EXCEPT !.lost[lock[a].value] = TRUE]
  /\ UNCHANGED <<webVars, schedVars, sync, dedupe, streams, cursor, checkpoint, op, today, faults>>

\* forceReleaseLock: redis.del(key).
ForceReleaseLock(a) ==
  /\ lock[a].value # 0
  /\ lock' = [lock EXCEPT ![a] = NoLock]
  /\ hist' = [hist EXCEPT !.lost[lock[a].value] = TRUE]
  /\ UNCHANGED <<webVars, schedVars, sync, dedupe, streams, cursor, checkpoint, op, today, faults>>

\* Midnight passes.
NextDay ==
  /\ today < MaxDay
  /\ today' = today + 1
  /\ UNCHANGED <<webVars, schedVars, sync, lock, dedupe, streams, cursor, checkpoint, op, faults, hist>>

EmitOutcomes == {"ok", "lost", "unpublished"}

\* The steps of startSync, with the store errors of the set F and the emit
\* outcomes of the set O injected.
Pipeline(F, O) ==
  \/ \E i \in Invocations : StartSync(i)
  \/ \E i \in Invocations, fault \in F : AcquireTry(i, fault)
  \/ \E i \in Invocations, ok \in BOOLEAN : ExecuteSyncBegin(i, ok)
  \/ \E i \in Invocations, fault \in F : CheckDuplicate(i, fault)
  \/ \E i \in Invocations, o \in O : EmitTx(i, o)
  \/ \E i \in Invocations, fault \in F : AdvanceCursor(i, fault)
  \/ \E i \in Invocations, fault \in F : FinalCursor(i, fault)
  \/ \E i \in Invocations, fault \in F : Release(i, fault)
  \/ \E i \in Invocations : MarkCompleted(i)
  \/ \E i \in Invocations, o \in O : EmitCompleted(i, o)
  \/ \E i \in Invocations : MarkFailed(i)
  \/ \E i \in Invocations, o \in O : EmitFailed(i, o)

\* Concurrent syncs of two accounts, leases that run out, crashes.
Next ==
  \/ \E i \in Invocations, a \in Accounts : Request(i, a, 0, 0)
  \/ Pipeline(BOOLEAN, EmitOutcomes)
  \/ \E i \in Invocations : Crash(i)
  \/ \E a \in Accounts : LeaseTick(a)
  \/ \E a \in Accounts : ForceReleaseLock(a)

Spec == Init /\ [][Next]_vars

\* Syncs and reruns of one account whose transactions are all booked: store
\* errors, crashes and leases that run out.
NextDedupe ==
  \/ \E i \in Invocations, f \in {0, 1} : Request(i, "acc-1", f, 0)
  \/ Pipeline(BOOLEAN, EmitOutcomes)
  \/ \E i \in Invocations : Crash(i)
  \/ LeaseTick("acc-1")

SpecDedupe == InitOn(MaxDay) /\ [][NextDedupe]_vars

\* Syncs of one account with any request bounds, over several days, with no
\* store error.
NextCursor ==
  \/ \E i \in Invocations, t \in OptDates : Request(i, "acc-1", 0, t)
  \/ Pipeline({FALSE}, {"ok"})
  \/ NextDay

SpecCursor == Init /\ [][NextCursor]_vars

\* Syncs of one account with and without a lower request bound, store
\* errors inside setCursor, and restores of the cursor from its checkpoint.
NextRestore ==
  \/ \E i \in Invocations, f \in {0, MaxDay} : Request(i, "acc-1", f, 0)
  \/ Pipeline({FALSE}, {"ok"})
  \/ \E i \in Invocations, stage \in SetCursorStages : AdvanceCursorPartly(i, stage)
  \/ \E i \in Invocations, stage \in SetCursorStages : FinalCursorPartly(i, stage)
  \/ RestoreFromCheckpoint("acc-1")
  \/ NextDay

SpecRestore == Init /\ [][NextRestore]_vars

\* Syncs of one account while the store is down for as many commands as
\* Lock.acquire tries.
NextOutage ==
  \/ \E i \in Invocations : Request(i, "acc-1", 0, 0)
  \/ Pipeline(BOOLEAN, {"ok"})

\* Syncs of one account that the provider answers with 429.
NextThrottle ==
  \/ \E i \in Invocations : Request(i, "acc-1", 0, 0)
  \/ Pipeline({FALSE}, {"ok"})
  \/ \E i \in Invocations, r \in RetryAfters : Fetch429(i, r)

SpecThrottle == Init /\ [][NextThrottle]_vars

InitOutage == InitDuring(1, 0, LOCK_RETRIES - MaxFaults)
SpecOutage == InitOutage /\ [][NextOutage]_vars

----------------------------------------------------------------------------
(* The webhook handler *)

CountIn(seq, e) == Cardinality({n \in DOMAIN seq : seq[n] = e})

\* A handler that does not look at the signature.
DeliverUnverified(h, batch, secret, signature) ==
  /\ hook[h].pc = "idle"
  /\ \A g \in Hooks : g < h => hook[g].pc # "idle" /\ hook[g].secret = secret
  /\ hook' = [hook EXCEPT ![h] =
       [pc |-> "check", events |-> batch, n |-> 1, status |-> 0,
        secret |-> secret, signature |-> signature]]
  /\ whist' = [whist EXCEPT !.delivered =
                 [e \in EventIds |-> @[e] + CountIn(batch, e)]]
  /\ UNCHANGED <<schedVars, groupVars, sync, lock, dedupe, streams, cursor, checkpoint, op, today, faults, hist, replay>>

\* POST /webhook/gocardless, lines 40-58: a request arrives and its
\* signature is verified against the secret the process is configured with.
Deliver(h, batch, secret, signature) ==
  LET valid == VerifyWebhookSignature(secret, signature)
  IN
  /\ hook[h].pc = "idle"
  \* numbered as they arrive, under one configuration
  /\ \A g \in Hooks : g < h => hook[g].pc # "idle" /\ hook[g].secret = secret
  /\ hook' = [hook EXCEPT ![h] =
       IF valid THEN [pc |-> "check", events |-> batch, n |-> 1, status |-> 0,
                      secret |-> secret, signature |-> signature]
       ELSE [pc |-> "done", events |-> batch, n |-> 0, status |-> 401,
             secret |-> secret, signature |-> signature]]
  /\ whist' = IF valid
       THEN [whist EXCEPT !.delivered =
               [e \in EventIds |-> @[e] + CountIn(batch, e)]]
       ELSE whist
  /\ UNCHANGED <<schedVars, groupVars, sync, lock, dedupe, streams, cursor, checkpoint, op, today, faults, hist, replay>>

\* Lines 60-74: the replay check of the next event of the request.
ReplayCheck(h) ==
  LET r == hook[h]
      e == r.events[r.n]
      g == ReplayGate(replay, e)
  IN /\ r.pc = "check"
     /\ r.n <= Len(r.events)
     /\ replay' = g.store
     /\ hook' = [hook EXCEPT ![h] =
          IF g.alreadyProcessed THEN [r EXCEPT !.n = @ + 1]
          ELSE [r EXCEPT !.pc = "process"]]
     /\ whist' = IF g.alreadyProcessed
          THEN [whist EXCEPT !.ignored[e] = @ + 1] ELSE whist
     /\ UNCHANGED <<schedVars, groupVars, sync, lock, dedupe, streams, cursor, checkpoint, op, today, faults, hist>>

\* Line 77 and processWebhookEvent: an updated account is reported on the
\* bank.account.updated stream; when that emit throws the request ends 500.
ProcessWebhookEvent(h, outcome) ==
  LET r == hook[h]
      e == r.events[r.n]
      emits == ResourceType(e) = "account"
      threw == emits /\ outcome # "ok"
  IN /\ r.pc = "process"
     /\ ~emits => outcome = "ok"
     /\ streams' = IF emits /\ outcome # "lost"
          THEN [streams EXCEPT !.updated[e] = @ + 1] ELSE streams
     /\ whist' = [whist EXCEPT !.runs[e] = @ + 1,
                              !.threw[e] = IF threw THEN @ + 1 ELSE @]
     /\ hook' = [hook EXCEPT ![h] =
          IF threw THEN [r EXCEPT !.pc = "done", !.status = 500]
          ELSE [r EXCEPT !.pc = "check", !.n = @ + 1]]
     /\ UNCHANGED <<schedVars, groupVars, sync, lock, dedupe, cursor, checkpoint, op, today, faults, hist, replay>>

\* Line 80: every event of the request was handled.
Respond(h) ==
  /\ hook[h].pc = "check"
  /\ hook[h].n > Len(hook[h].events)
  /\ hook' = [hook EXCEPT ![h] = [@ EXCEPT !.pc = "done", !.status = 200]]
  /\ UNCHANGED <<schedVars, groupVars, sync, lock, dedupe, streams, cursor, checkpoint, op, today, faults, hist,
                 replay, whist>>

\* Concurrent webhook requests.
NextWebhook ==
  \/ \E h \in Hooks, b \in Batches, secret \in Secrets, signature \in Signatures :
       Deliver(h, b, secret, signature)
  \/ \E h \in Hooks : ReplayCheck(h)
  \/ \E h \in Hooks, o \in EmitOutcomes : ProcessWebhookEvent(h, o)
  \/ \E h \in Hooks : Respond(h)

SpecWebhook == Init /\ [][NextWebhook]_vars

----------------------------------------------------------------------------
(* consumeEvents *)

GroupUntouched == <<schedVars, hook, replay, whist, sync, lock, dedupe, streams,
                    cursor, checkpoint, op, today, faults, hist>>

\* emit, lines 42-47: XADD appends an entry to the stream.
XAdd(m) ==
  /\ entries[m].state = "none"
  /\ \A k \in Messages : k < m => entries[k].state # "none"
  /\ entries' = [entries EXCEPT ![m].state = "new"]
  /\ UNCHANGED <<consumer, GroupUntouched>>

\* Lines 139-150: XREADGROUP with '>' and BLOCK. The entries never delivered
\* become pending for this consumer; with none, the block runs out and the
\* loop goes round (polls tells one round from the next).
XReadGroup(c) ==
  LET batch == NeverDelivered(entries, 1)
  IN /\ consumer[c].pc = "read"
     /\ entries' = [m \in Messages |->
          IF \E n \in DOMAIN batch : batch[n] = m
          THEN [entries[m] EXCEPT !.state = "pending", !.owner = c]
          ELSE entries[m]]
     /\ consumer' = [consumer EXCEPT ![c] =
          IF batch = <<>> THEN [@ EXCEPT !.polls = 1 - @]
          ELSE [@ EXCEPT !.pc = "handle", !.batch = batch, !.n = 1]]
     /\ UNCHANGED GroupUntouched

\* A loop that acknowledges the entry whatever the handler did.
HandlerAlwaysAck(c, ok) ==
  LET r == consumer[c]
      m == r.batch[r.n]
  IN /\ r.pc = "handle"
     /\ r.n <= Len(r.batch)
     /\ entries' = [entries EXCEPT ![m].handled = @ + 1,
                                   ![m].failed = @ \/ ~ok]
     /\ consumer' = [consumer EXCEPT ![c] =
          IF r.autoAck THEN [r EXCEPT !.pc = "ack"] ELSE [r EXCEPT !.n = @ + 1]]
     /\ UNCHANGED GroupUntouched

\* Lines 152-162: the handler runs on the next entry of the batch; ok: it
\* returns, otherwise it throws (or the payload does not parse) and the
\* inner catch logs the error.
Handler(c, ok) ==
  LET r == consumer[c]
      m == r.batch[r.n]
  IN /\ r.pc = "handle"
     /\ r.n <= Len(r.batch)
     /\ entries' = [entries EXCEPT ![m].handled = @ + 1,
                                   ![m].failed = @ \/ ~ok]
     /\ consumer' = [consumer EXCEPT ![c] =
          IF ok /\ r.autoAck THEN [r EXCEPT !.pc = "ack"]
          ELSE [r EXCEPT !.n = @ + 1]]
     /\ UNCHANGED GroupUntouched

\* Lines 157-159: XACK; fault: it throws, into the same inner catch.
XAck(c, fault) ==
  LET r == consumer[c]
      m == r.batch[r.n]
  IN /\ r.pc = "ack"
     /\ fault => faults < MaxFaults
     /\ faults' = IF fault THEN faults + 1 ELSE faults
     /\ entries' = IF fault THEN entries ELSE [entries EXCEPT ![m].state = "acked"]
     /\ consumer' = [consumer EXCEPT ![c] = [r EXCEPT !.pc = "handle", !.n = @ + 1]]
     /\ UNCHANGED <<schedVars, hook, replay, whist, sync, lock, dedupe, streams,
                    cursor, checkpoint, op, today, hist>>

\* Line 163: the batch is through, the loop reads again.
EndBatch(c) ==
  /\ consumer[c].pc = "handle"
  /\ consumer[c].n > Len(consumer[c].batch)
  /\ consumer' = [consumer EXCEPT ![c] = [@ EXCEPT !.pc = "read", !.batch = <<>>, !.n = 0]]
  /\ UNCHANGED <<entries, GroupUntouched>>

ConsumeEvents(c) ==
  \/ XReadGroup(c)
  \/ \E ok \in BOOLEAN : Handler(c, ok)
  \/ \E fault \in BOOLEAN : XAck(c, fault)
  \/ EndBatch(c)

NextConsume ==
  \/ \E m \in Messages : XAdd(m)
  \/ \E c \in Consumers : XReadGroup(c)
  \/ \E c \in Consumers, ok \in BOOLEAN : Handler(c, ok)
  \/ \E c \in Consumers, fault \in BOOLEAN : XAck(c, fault)
  \/ \E c \in Consumers : EndBatch(c)

InitConsume ==
  \E autoAck \in BOOLEAN :
    InitStores(1, 0) /\ SchedInit(0) /\ GroupInit(autoAck)

SpecConsume == InitConsume /\ [][NextConsume]_vars

\* The loops keep running: no loop waits for ever at a step it can take.
SpecConsumeFair ==
  SpecConsume /\ \A c \in Consumers : WF_vars(ConsumeEvents(c))

----------------------------------------------------------------------------
(* The scheduler *)

Untouched == <<sync, lock, dedupe, streams, cursor, checkpoint, op, today, faults, hist, webVars>>

\* scheduleBalanceSync / scheduleTransactionSync, lines 75-99, and addTask.
AddTask(t, a, type) ==
  LET c == CanRunTask(limits, a, clock)
      task == [type |-> type, accountId |-> a, retryCount |-> 0,
               nextRunTime |-> IF c.allowed THEN clock ELSE c.nextAvailableTime,
               lastError |-> "none"]
      ts == [tasks EXCEPT ![t] = task]
  IN /\ tasks[t].type = "none"
     /\ \A u \in TaskIds : u < t => tasks[u].type # "none"   \* ids in creation order
     /\ tasks' = ts
     /\ zset' = zset \cup {Member(t, task)}
     /\ queue' = SortByNextRun(Append(queue, t), ts)
     /\ shist' = [shist EXCEPT
          !.deniedDay[t] = IF c.reason = "daily" THEN DayOf(clock) ELSE @,
          !.createdDay[t] = DayOf(clock)]

\* A sync is scheduled from outside the daily seeding (POST /sync/:accountId
\* of the scheduled routes).
ScheduleSync(t, a, type) ==
  /\ AddTask(t, a, type)
  /\ UNCHANGED <<clock, limits, pass, seedVars, isRunning, Untouched>>

\* scheduleDailySyncs, lines 101-128: the accounts of the linked
\* requisitions are listed, and for the account the two seeded of today
\* are read.
SeedRead(s, a) ==
  LET day == DayOf(clock)
  IN /\ seed[s].pc = "idle"
     /\ \A r \in Seeds : r < s => seed[r].pc # "idle"     \* numbered as they start
     /\ seed' = [seed EXCEPT ![s] =
          [pc |-> "balance", day |-> day,
           balanceScheduled |-> <<"balance", a, day>> \in seeded,
           transactionScheduled |-> <<"transaction", a, day>> \in seeded]]
     /\ UNCHANGED <<clock, tasks, queue, zset, limits, pass, shist, seeded, isRunning, Untouched>>

\* Lines 130-131: if (!balanceScheduled) scheduleBalanceSync.
SeedBalance(s, a) ==
  /\ seed[s].pc = "balance"
  /\ IF seed[s].balanceScheduled
     THEN /\ seed' = [seed EXCEPT ![s].pc = "transaction"]
          /\ UNCHANGED <<tasks, queue, zset, shist>>
     ELSE /\ \E t \in TaskIds : AddTask(t, a, "balance")
          /\ seed' = [seed EXCEPT ![s].pc = "markBalance"]
  /\ UNCHANGED <<clock, limits, pass, seeded, isRunning, Untouched>>

\* Line 132: redis.setex(balanceKey, 86400, '1').
SeedMarkBalance(s, a) ==
  /\ seed[s].pc = "markBalance"
  /\ seeded' = seeded \cup {<<"balance", a, seed[s].day>>}
  /\ seed' = [seed EXCEPT ![s].pc = "transaction"]
  /\ UNCHANGED <<clock, tasks, queue, zset, limits, pass, shist, isRunning, Untouched>>

\* Lines 136-137: if (!transactionScheduled) scheduleTransactionSync.
SeedTransaction(s, a) ==
  /\ seed[s].pc = "transaction"
  /\ IF seed[s].transactionScheduled
     THEN /\ seed' = [seed EXCEPT ![s].pc = "done"]
          /\ UNCHANGED <<tasks, queue, zset, shist>>
     ELSE /\ \E t \in TaskIds : AddTask(t, a, "transactions")
          /\ seed' = [seed EXCEPT ![s].pc = "markTransaction"]
  /\ UNCHANGED <<clock, limits, pass, seeded, isRunning, Untouched>>

\* Line 138: redis.setex(transactionKey, 86400, '1').
SeedMarkTransaction(s, a) ==
  /\ seed[s].pc = "markTransaction"
  /\ seeded' = seeded \cup {<<"transaction", a, seed[s].day>>}
  /\ seed' = [seed EXCEPT ![s].pc = "done"]
  /\ UNCHANGED <<clock, tasks, queue, zset, limits, pass, shist, isRunning, Untouched>>

\* The timer fires (setInterval, 30000) or start() runs its first pass:
\* processTasks lines 241-256.
StartPass(p) ==
  LET ready == ReadyTasks(queue, tasks, clock)
  IN /\ isRunning
     /\ pass[p].pc = "idle"
     /\ \A q \in Passes : q < p => pass[q].pc # "idle"   \* lowest free slot
     /\ shist.lastTick < clock
     /\ ready # <<>>
     /\ pass' = [pass EXCEPT ![p] = [NoPass EXCEPT !.pc = "check", !.now = clock,
                                                   !.ready = ready, !.idx = 1]]
     /\ shist' = [shist EXCEPT !.lastTick = clock]
     /\ UNCHANGED <<clock, tasks, queue, zset, limits, seedVars, isRunning, Untouched>>

\* Lines 258-279: canRunTask for the next ready task; a denied task is
\* rescheduled and written to the sorted set.
CheckTask(p) ==
  LET r == pass[p]
      t == r.ready[r.idx]
      c == CanRunTask(limits, tasks[t].accountId, clock)
      task == [tasks[t] EXCEPT !.nextRunTime = c.nextAvailableTime]
  IN /\ r.pc = "check"
     /\ r.idx <= Len(r.ready)
     /\ IF c.allowed
        THEN /\ pass' = [pass EXCEPT ![p].pc = "record"]
             /\ UNCHANGED <<tasks, zset, shist>>
        ELSE /\ tasks' = [tasks EXCEPT ![t] = task]
             /\ zset' = zset \cup {Member(t, task)}
             /\ pass' = [pass EXCEPT ![p].idx = @ + 1]
             /\ shist' = IF c.reason = "daily"
                  THEN [shist EXCEPT !.deniedDay[t] = DayOf(clock)] ELSE shist
     /\ UNCHANGED <<clock, queue, limits, seedVars, isRunning, Untouched>>

\* Lines 285-293: the call is recorded under the keys of the pass's now.
RecordCall(p) ==
  LET r == pass[p]
      a == tasks[r.ready[r.idx]].accountId
  IN /\ r.pc = "record"
     /\ limits' = [limits EXCEPT !.daily[a][DayOf(r.now)] = @ + 1,
                                 !.global[MinuteOf(r.now)] = @ + 1]
     /\ pass' = [pass EXCEPT ![p].pc = "call"]
     /\ UNCHANGED <<clock, tasks, queue, zset, shist, seedVars, isRunning, Untouched>>

\* Lines 296-340: the provider call is issued.
ProviderCall(p) ==
  LET r == pass[p]
      t == r.ready[r.idx]
  IN /\ r.pc = "call"
     /\ pass' = [pass EXCEPT ![p].pc = "await"]
     /\ shist' = [shist EXCEPT !.calls[t] = @ + 1,
                               !.issued[tasks[t].accountId][DayOf(clock)] = @ + 1]
     /\ UNCHANGED <<clock, tasks, queue, zset, limits, seedVars, isRunning, Untouched>>

\* The pass goes on with its next ready task, having met this answer.
Continue(p, status, retryAfter) ==
  [pass EXCEPT ![p].pc = "check", ![p].idx = @ + 1,
               ![p].error = [status |-> status, retryAfter |-> retryAfter]]

\* The call has succeeded, lines 342-347.
TaskDone(p) ==
  LET r == pass[p]
      t == r.ready[r.idx]
  IN /\ r.pc = "await"
     /\ zset' = zset \ {Member(t, tasks[t])}
     /\ queue' = Without(queue, t)
     /\ pass' = Continue(p, 200, 0)
     /\ shist' = [shist EXCEPT !.done[t] = TRUE]
     /\ UNCHANGED <<clock, tasks, limits, seedVars, isRunning, Untouched>>

\* The call of a balance task has failed with anything but a 429: getBalance
\* logs the error and returns null, and processTasks goes on as after a
\* success, lines 297-310 and 342-347.
CallSwallowed(p) ==
  LET r == pass[p]
      t == r.ready[r.idx]
  IN /\ r.pc = "await"
     /\ tasks[t].type = "balance"
     /\ zset' = zset \ {Member(t, tasks[t])}
     /\ queue' = Without(queue, t)
     /\ pass' = Continue(p, 200, 0)
     /\ shist' = [shist EXCEPT !.errors[t] = @ + 1, !.done[t] = TRUE]
     /\ UNCHANGED <<clock, tasks, limits, seedVars, isRunning, Untouched>>

\* The call has failed with 429, lines 353-390. SETEX with a time to live
\* of 0 is refused by Redis: the handler throws out of the pass.
RateLimitHit(p, retryAfter) ==
  LET r == pass[p]
      t == r.ready[r.idx]
      retryTime == r.now + retryAfter
      task == [tasks[t] EXCEPT !.nextRunTime = retryTime, !.lastError = "429"]
  IN /\ r.pc = "await"
     /\ IF retryAfter = 0
        THEN /\ pass' = [pass EXCEPT ![p] =
                  [NoPass EXCEPT !.error = [status |-> 429, retryAfter |-> 0]]]
             /\ UNCHANGED <<tasks, zset, limits>>
        ELSE /\ limits' = [limits EXCEPT !.ratelimit[task.accountId] = retryTime]
             /\ tasks' = [tasks EXCEPT ![t] = task]
             /\ zset' = zset \cup {Member(t, task)}
             /\ pass' = Continue(p, 429, retryAfter)
     /\ UNCHANGED <<clock, queue, shist, seedVars, isRunning, Untouched>>

\* TaskFailed with a retry delay that does not grow with the retry count.
TaskFailedFlat(p) ==
  LET r == pass[p]
      t == r.ready[r.idx]
      n == tasks[t].retryCount + 1
      task == IF n < MAX_TASK_RETRIES
              THEN [tasks[t] EXCEPT !.retryCount = n, !.lastError = "error",
                                    !.nextRunTime = r.now + MINUTE]
              ELSE [tasks[t] EXCEPT !.retryCount = n]
  IN /\ r.pc = "await"
     /\ tasks[t].type = "transactions"
     /\ tasks' = [tasks EXCEPT ![t] = task]
     /\ pass' = Continue(p, 500, 0)
     /\ IF n < MAX_TASK_RETRIES
        THEN /\ zset' = zset \cup {Member(t, task)}
             /\ shist' = [shist EXCEPT !.errors[t] = @ + 1]
             /\ UNCHANGED queue
        ELSE /\ zset' = zset \ {Member(t, task)}
             /\ queue' = Without(queue, t)
             /\ shist' = [shist EXCEPT !.failed[t] = @ + 1, !.errors[t] = @ + 1]
     /\ UNCHANGED <<clock, limits, seedVars, isRunning, Untouched>>

\* The call has failed otherwise (listTransactions throws), lines 391-418.
TaskFailed(p) ==
  LET r == pass[p]
      t == r.ready[r.idx]
      n == tasks[t].retryCount + 1
      task == IF n < MAX_TASK_RETRIES
              THEN [tasks[t] EXCEPT !.retryCount = n, !.lastError = "error",
                                    !.nextRunTime = r.now + Pow2(n) * MINUTE]
              ELSE [tasks[t] EXCEPT !.retryCount = n]
  IN /\ r.pc = "await"
     /\ tasks[t].type = "transactions"
     /\ tasks' = [tasks EXCEPT ![t] = task]
     /\ pass' = Continue(p, 500, 0)
     /\ IF n < MAX_TASK_RETRIES
        THEN /\ zset' = zset \cup {Member(t, task)}
             /\ shist' = [shist EXCEPT !.errors[t] = @ + 1]
             /\ UNCHANGED queue
        ELSE /\ zset' = zset \ {Member(t, task)}
             /\ queue' = Without(queue, t)
             /\ shist' = [shist EXCEPT !.failed[t] = @ + 1, !.errors[t] = @ + 1]
     /\ UNCHANGED <<clock, limits, seedVars, isRunning, Untouched>>

\* The first store command of the catch block throws (SETEX of the 429
\* handler; ZADD or ZREM of the retry handler, after task.retryCount++): the
\* error leaves processTasks, the rest of the pass is not run.
HandlerStoreError(p, status) ==
  LET r == pass[p]
      t == r.ready[r.idx]
      n == tasks[t].retryCount + 1
      task == IF n < MAX_TASK_RETRIES
              THEN [tasks[t] EXCEPT !.retryCount = n, !.lastError = "error",
                                    !.nextRunTime = r.now + Pow2(n) * MINUTE]
              ELSE [tasks[t] EXCEPT !.retryCount = n]
  IN /\ r.pc = "await"
     /\ status = 500 => tasks[t].type = "transactions"
     /\ faults < MaxFaults
     /\ faults' = faults + 1
     /\ tasks' = IF status = 429 THEN tasks ELSE [tasks EXCEPT ![t] = task]
     /\ shist' = IF status = 429 THEN shist ELSE [shist EXCEPT !.errors[t] = @ + 1]
     /\ pass' = [pass EXCEPT ![p] =
          [NoPass EXCEPT !.error = [status |-> status, retryAfter |-> 0]]]
     /\ UNCHANGED <<clock, queue, zset, limits, seedVars, isRunning, webVars,
                    sync, lock, dedupe, streams, cursor, checkpoint, op, today, hist>>

\* Line 258: no ready task is left, processTasks returns.
EndPass(p) ==
  /\ pass[p].pc = "check"
  /\ pass[p].idx > Len(pass[p].ready)
  /\ pass' = [pass EXCEPT ![p] = NoPass]
  /\ UNCHANGED <<clock, tasks, queue, zset, limits, shist, seedVars, isRunning, Untouched>>

\* stop(), lines 66-73: isRunning is cleared and the timer with it; a pass
\* that is under way is not told.
Stop ==
  /\ isRunning
  /\ isRunning' = FALSE
  /\ UNCHANGED <<clock, tasks, queue, zset, limits, pass, shist, seedVars, Untouched>>

\* A timer period goes by.
Advance ==
  /\ clock < MaxClock
  /\ clock' = clock + 1
  /\ UNCHANGED <<tasks, queue, zset, limits, pass, shist, seedVars, isRunning, Untouched>>

\* Timer periods go by whose ticks find no ready task, up to the period in
\* which the next task of the queue is due.
Sleep ==
  LET due == {tasks[queue[n]].nextRunTime : n \in DOMAIN queue}
      next == CHOOSE d \in due : \A e \in due : d <= e
  IN /\ \A p \in Passes : pass[p].pc = "idle"
     /\ due # {}
     /\ next > clock /\ next <= Horizon
     /\ clock' = next
     /\ UNCHANGED <<tasks, queue, zset, limits, pass, shist, seedVars, isRunning, Untouched>>

TaskTypes == {"balance", "transactions"}

NextSched ==
  \/ \E t \in TaskIds, type \in TaskTypes : ScheduleSync(t, "acc-1", type)
  \/ \E p \in Passes : StartPass(p)
  \/ \E p \in Passes : CheckTask(p)
  \/ \E p \in Passes : RecordCall(p)
  \/ \E p \in Passes : ProviderCall(p)
  \/ \E p \in Passes : TaskDone(p)
  \/ \E p \in Passes, r \in RetryAfters : RateLimitHit(p, r)
  \/ \E p \in Passes : TaskFailed(p)
  \/ \E p \in Passes : EndPass(p)
  \/ Advance

InitSched == \E count \in {0, DAILY_LIMIT - 1} : InitWith(1, count)
SpecSched == InitSched /\ [][NextSched]_vars

\* The steps of a pass that does not overlap with another one, with the
\* store errors of the set F injected in the catch block.
SerialPass(F) ==
  \/ StartPass(1)
  \/ CheckTask(1)
  \/ RecordCall(1)
  \/ ProviderCall(1)
  \/ TaskDone(1)
  \/ CallSwallowed(1)
  \/ \E r \in RetryAfters : RateLimitHit(1, r)
  \/ TaskFailed(1)
  \/ \E status \in F : HandlerStoreError(1, status)
  \/ EndPass(1)

\* The tasks of one account and a scheduler that is stopped at any moment.
NextStop ==
  \/ \E t \in TaskIds, type \in TaskTypes : ScheduleSync(t, "acc-1", type)
  \/ SerialPass({})
  \/ Advance
  \/ Stop

SpecStop == Init /\ [][NextStop]_vars

\* The tasks of one account over the time their backoff retries take.
NextTasks ==
  \/ \E t \in TaskIds, type \in TaskTypes : ScheduleSync(t, "acc-1", type)
  \/ SerialPass({500})
  \/ Sleep

SpecTasks == InitWith(1, 0) /\ [][NextTasks]_vars

\* One task of one account over the time its backoff retries take.
NextBackoff ==
  \/ \E type \in TaskTypes : ScheduleSync(1, "acc-1", type)
  \/ SerialPass({500})
  \/ Sleep

SpecBackoff == InitWith(1, 0) /\ [][NextBackoff]_vars

\* The daily seeding of one linked account by the passes of start() and of
\* the timer, over two days.
NextSeed ==
  \/ \E s \in Seeds : SeedRead(s, "acc-1")
  \/ \E s \in Seeds : SeedBalance(s, "acc-1")
  \/ \E s \in Seeds : SeedMarkBalance(s, "acc-1")
  \/ \E s \in Seeds : SeedTransaction(s, "acc-1")
  \/ \E s \in Seeds : SeedMarkTransaction(s, "acc-1")
  \/ Advance

SpecSeed == InitWith(1, 0) /\ [][NextSeed]_vars

\* One scheduled task and one requested sync of the same account: the
\* scheduler and the sync pipeline call the provider side by side.
NextSuspend ==
  \/ \E type \in TaskTypes : ScheduleSync(1, "acc-1", type)
  \/ SerialPass({})
  \/ Advance
  \/ Request(1, "acc-1", 0, 0)
  \/ Pipeline({FALSE}, {"ok"})

SpecSuspend == Init /\ [][NextSuspend]_vars

\* The rate limiter at work on the tasks of one account, started with the
\* daily and the per-minute counters below, one short of and at their limits.
NextGate ==
  \/ \E t \in TaskIds, type \in TaskTypes : ScheduleSync(t, "acc-1", type)
  \/ SerialPass({})
  \/ Advance

InitGate ==
  \E count \in {0, DAILY_LIMIT - 1, DAILY_LIMIT},
     used \in {0, MAX_REQUESTS_PER_MINUTE - 1, MAX_REQUESTS_PER_MINUTE} :
    InitCore(1, 0) /\ SchedInitWith(count, used)

SpecGate == InitGate /\ [][NextGate]_vars

\* The ticks of a queue that holds tasks of two accounts.
NextTick ==
  \/ \E t \in TaskIds, a \in Accounts, type \in TaskTypes : ScheduleSync(t, a, type)
  \/ SerialPass({429, 500})
  \/ Advance

SpecTick == InitWith(1, 0) /\ [][NextTick]_vars

----------------------------------------------------------------------------
(* Properties of the lock *)

AccountOf(i) == sync[i].accountId
Attempting(i) == sync[i].pc \in {"attempt", "tx", "emit", "final"}
Returned(i) == sync[i].pc \in {"markCompleted", "emitCompleted", "markFailed",
                               "emitFailed", "done"}

\* C1: for every account, at most one startSync invocation is between its
\* successful acquire and its release, among the invocations whose lease
\* has neither run out nor been force-released.
C1_MutualExclusion ==
  \A a \in Accounts :
    Cardinality({i \in Invocations :
      AccountOf(i) = a /\ sync[i].pc \in Holding /\ ~hist.lost[i]}) <= 1

\* C1 witness: one invocation holds the lock of an account while another
\* invocation for the same account has tried to acquire it and failed.
C1_Witness ==
  \E i, j \in Invocations :
    /\ i # j /\ AccountOf(i) = AccountOf(j)
    /\ sync[i].pc \in Holding /\ ~hist.lost[i]
    /\ sync[j].pc = "acquire" /\ sync[j].tries >= 1

\* C2: a release by an invocation whose token is not the stored value
\* returns false and leaves the stored token and its TTL as they were.
C2_ReleaseByNonOwner ==
  [][\A i \in Invocations :
       (hist'.released[i] = hist.released[i] + 1 /\ lock[AccountOf(i)].value # i)
         => /\ lock'[AccountOf(i)] = lock[AccountOf(i)]
            /\ hist'.relResult[i] = "false"]_vars

\* C2 witness: an invocation whose lease ran out has called release, got
\* false, and the lock is still held by the invocation that acquired after it.
C2_Witness ==
  \E i \in Invocations :
    /\ hist.relResult[i] = "false"
    /\ lock[AccountOf(i)].value \notin {0, i}

\* C10, the part about acquire and release: one acquire before the first
\* attempt, no release or acquire during the attempts, one release after.
C10_LockedOnce(i) ==
  /\ sync[i].pc \in {"idle", "start", "acquire"} =>
       hist.acquired[i] = 0 /\ hist.released[i] = 0
  /\ (Attempting(i) \/ sync[i].pc = "release") =>
       hist.acquired[i] = 1 /\ hist.released[i] = 0
  /\ Returned(i) =>
       hist.acquired[i] <= 1 /\ hist.released[i] = hist.acquired[i]

\* C10 as claimed: and every attempt runs while the invocation's token is
\* the stored lock value.
C10_HeldThroughAttempts ==
  \A i \in Invocations :
    /\ C10_LockedOnce(i)
    /\ Attempting(i) => lock[AccountOf(i)].value = i

\* C10 as amended: every attempt runs while the invocation's token is the
\* stored lock value, as long as its lease has not run out and the lock has
\* not been force-released.
C10_HeldUnlessLeaseLost ==
  \A i \in Invocations :
    /\ C10_LockedOnce(i)
    /\ (Attempting(i) /\ ~hist.lost[i]) => lock[AccountOf(i)].value = i

\* C10 witness: an invocation is in its third attempt, holding the lock it
\* acquired once.
C10_Witness ==
  \E i \in Invocations :
    /\ Attempting(i) /\ sync[i].attempt = MAX_RETRIES
    /\ hist.acquired[i] = 1 /\ lock[AccountOf(i)].value = i

----------------------------------------------------------------------------
(* Properties of the dedupe store and of the cursor *)

Quiescent == \A i \in Invocations : ~(sync[i].pc \in Holding)
Succeeded(i) == Returned(i) /\ ~sync[i].error

\* C3: for every external reference of the page of a sync that succeeded,
\* exactly one bank.tx.created event is in the stream once no sync is
\* running, if no dedupe store call failed.
C3_ExactlyOneEvent ==
  (~hist.dedupFailed /\ Quiescent) =>
    \A i \in Invocations : Succeeded(i) =>
      \A n \in DOMAIN sync[i].page : streams.created[sync[i].page[n]] = 1

\* C4: a dedupe marker is present only for a reference whose
\* bank.tx.created event is already in the stream.
C4_MarkerImpliesEmitted ==
  \A r \in dedupe : streams.created[r] >= 1

\* C5: if no dedupe store call failed, at most one bank.tx.created event is
\* in the stream for any external reference.
C5_AtMostOneEvent ==
  ~hist.dedupFailed => \A r \in Refs : streams.created[r] <= 1

\* C5 witness: a reference was emitted once and a later attempt or another
\* execution met it again and skipped it as a duplicate.
C5_Witness ==
  \E r \in Refs :
    ~hist.dedupFailed /\ streams.created[r] = 1 /\ r \in hist.skipped

\* C6: the since values left by the successful syncs of an account never
\* decrease.
C6_SinceNonDecreasing ==
  \A a \in Accounts : \A m, n \in DOMAIN hist.since[a] :
    m < n => hist.since[a][m] <= hist.since[a][n]

----------------------------------------------------------------------------
(* Properties of the webhook gate *)

Processing(e) ==
  Cardinality({h \in Hooks : hook[h].pc = "process" /\ hook[h].events[hook[h].n] = e})

----------------------------------------------------------------------------
(* Properties of the scheduler *)

Current(p) == pass[p].ready[pass[p].idx]

\* The step of pass p that evaluates canRunTask for its current task.
Checks(p) == pass[p].pc = "check" /\ pass'[p] # pass[p] /\ pass'[p].pc # "idle"

\* The step of pass p that issues the provider call.
Dispatches(p) == pass[p].pc = "call" /\ pass'[p].pc = "await"

\* The step of pass p that handles a 429 answer.
Handles429(p) ==
  pass[p].pc = "await" /\ pass'[p].pc # "await" /\ pass'[p].error.status = 429

\* C8: when the daily counter of the account and day is at DAILY_LIMIT,
\* canRunTask denies the task, with next midnight as the next available time
\* when no suspension is active; a task denied so is not dispatched that day.
C8_DeniedAtDailyLimit ==
  [][\A p \in Passes :
       LET t == Current(p)
           a == tasks[t].accountId
       IN /\ (Checks(p) /\ limits.daily[a][DayOf(clock)] >= DAILY_LIMIT) =>
               /\ pass'[p].pc = "check" /\ pass'[p].idx = pass[p].idx + 1
               /\ limits.ratelimit[a] <= clock =>
                    tasks'[t].nextRunTime = NextMidnight(clock)
          /\ Dispatches(p) => shist.deniedDay[t] # DayOf(clock)]_vars

\* C9: a 429 answer with retry-after r leaves the task in the queue with
\* next-run-time = the pass's now + r and the retry count it had.
C9_RescheduledAfter429 ==
  [][\A p \in Passes : Handles429(p) =>
       LET t == Current(p)
       IN /\ \E n \in DOMAIN queue' : queue'[n] = t
          /\ tasks'[t].nextRunTime = pass[p].now + pass'[p].error.retryAfter
          /\ tasks'[t].retryCount = tasks[t].retryCount]_vars

\* C11: once an invocation that acquired the lock has its operation recorded
\* as completed or failed, release has been invoked for it, and the lock no
\* longer carries its token unless the store call of that release failed.
C11_ReleasedBeforeOutcome ==
  \A i \in Invocations :
    hist.acquired[i] = 1 /\ op[i].status \in {"completed", "failed"}
      => /\ hist.released[i] = 1
         /\ ~hist.relError[i] => lock[AccountOf(i)].value # i

\* An invocation that held the lock through MAX_RETRIES failed attempts has
\* its operation recorded as failed, after a release that removed its token.
C11_Witness ==
  \E i \in Invocations :
    /\ op[i].status = "failed" /\ sync[i].attempt = MAX_RETRIES
    /\ hist.acquired[i] = 1 /\ hist.released[i] = 1
    /\ hist.relResult[i] = "true" /\ lock[AccountOf(i)].value = 0

\* POST /sync/:accountId answers 202 for invocation i on account a: the
\* operation is stored and startSync is started.
Accepts(i, a) ==
  sync[i].pc = "idle" /\ sync'[i].pc = "start" /\ sync'[i].accountId = a

\* The operation of an accepted request that is neither completed nor failed.
Unfinished(j) == sync[j].pc # "idle" /\ op[j].status \in {"pending", "in_progress"}

\* C12: while an accepted sync request of an account has an operation that
\* has not reached completed or failed, no further sync request of that
\* account is accepted (it gets 409, no operation and no pipeline).
C12_RejectedWhileInProgress ==
  [][\A i \in Invocations, a \in Accounts :
       Accepts(i, a) =>
         \A j \in Invocations \ {i} : ~(Unfinished(j) /\ AccountOf(j) = a)]_vars

\* The duplicate check of invocation i meets a store error in this step.
DedupeCheckFails(i) ==
  /\ sync[i].pc = "tx" /\ sync[i].k <= Len(sync[i].page)
  /\ sync'[i] # sync[i] /\ faults' = faults + 1

\* C13: a duplicate check whose store operation fails answers "not
\* duplicate" without throwing: the pipeline goes on to emit that same
\* transaction in the same attempt and does not skip it.
C13_FailedCheckEmits ==
  [][\A i \in Invocations :
       DedupeCheckFails(i) =>
         /\ sync'[i].pc = "emit"
         /\ sync'[i].k = sync[i].k /\ sync'[i].attempt = sync[i].attempt
         /\ hist'.skipped = hist.skipped /\ dedupe' = dedupe]_vars

\* A transaction whose marker was already stored is emitted a second time
\* after its duplicate check failed.
C13_Witness ==
  /\ hist.dedupFailed
  /\ \E r \in Refs : r \in dedupe /\ streams.created[r] = 2 /\ ~(r \in hist.skipped)

ProviderError(t) == shist'.errors[t] = shist.errors[t] + 1

InQueue(q, t) == \E n \in DOMAIN q : q[n] = t

\* C15: a provider call that fails with a non-rate-limit error adds exactly
\* one to the retry count of its task, whatever the type; below
\* MAX_TASK_RETRIES the task stays queued and no taskFailed is emitted, at
\* MAX_TASK_RETRIES it leaves the queue and taskFailed is emitted once.
C15_FailureCountsOneRetry ==
  [][\A t \in TaskIds :
       ProviderError(t) =>
         LET n == tasks[t].retryCount + 1
         IN /\ tasks'[t].retryCount = n
            /\ n < MAX_TASK_RETRIES =>
                 InQueue(queue', t) /\ shist'.failed[t] = shist.failed[t]
            /\ n >= MAX_TASK_RETRIES =>
                 ~InQueue(queue', t) /\ shist'.failed[t] = shist.failed[t] + 1]_vars

\* Task t has ended: its call succeeded, or it failed for the last time.
Terminal(t) == shist.done[t] \/ shist.failed[t] > 0

\* C16: once a task has ended, neither the in-memory queue nor the sorted
\* set scheduler:queue holds an entry with its id.
C16_NoEntryAfterTerminal ==
  \A t \in TaskIds :
    Terminal(t) => ~InQueue(queue, t) /\ \A m \in zset : m.id # t

\* The fetch of invocation i is answered with 429 in this step.
Throttled(i) == Len(hist'.got429[i]) = Len(hist.got429[i]) + 1

\* C17: every 429 answer, to a sync pipeline fetch or to a scheduler task,
\* sets the suspension of the account to the time of the call plus the
\* retry-after of the answer.
C17_SuspendedOn429 ==
  [][/\ \A i \in Invocations :
          Throttled(i) =>
            limits'.ratelimit[AccountOf(i)] =
              clock + hist'.got429[i][Len(hist'.got429[i])]
     /\ \A p \in Passes :
          Handles429(p) =>
            limits'.ratelimit[tasks[Current(p)].accountId] =
              pass[p].now + pass'[p].error.retryAfter]_vars

\* Task t is enqueued in this step.
Enqueues(t) == tasks[t].type = "none" /\ tasks'[t].type # "none"

\* C18: a task that the rate limiter denies at enqueue is stored, in memory
\* and in the sorted set, with the time the limiter reports as its
\* next-run-time; a task the limiter denies at the check of a pass is not
\* dispatched by that pass, and no task is dispatched before its
\* next-run-time.
C18_NotBeforeNextRun ==
  [][/\ \A t \in TaskIds :
          LET c == CanRunTask(limits, tasks'[t].accountId, clock)
          IN Enqueues(t) /\ ~c.allowed =>
               /\ tasks'[t].nextRunTime = c.nextAvailableTime
               /\ Member(t, tasks'[t]) \in zset'
     /\ \A p \in Passes :
          LET t == Current(p)
              c == CanRunTask(limits, tasks[t].accountId, clock)
          IN /\ Checks(p) /\ ~c.allowed => pass'[p].pc # "record"
             /\ Dispatches(p) => tasks[t].nextRunTime <= clock]_vars

\* The tasks of the given type that were enqueued for account a on day d.
EnqueuedOn(a, type, d) ==
  {t \in TaskIds : /\ tasks[t].type = type /\ tasks[t].accountId = a
                   /\ shist.createdDay[t] = d}

\* C19: for a linked account and a calendar day, the seeding passes of that
\* day together enqueue at most one balance task and at most one
\* transactions task.
C19_SeededOncePerDay ==
  \A a \in Accounts, type \in TaskTypes, d \in DayKeys :
    Cardinality(EnqueuedOn(a, type, d)) <= 1

\* The step of pass p in which the call of its current task ends in the
\* catch block.
Fails(p) ==
  pass[p].pc = "await" /\ pass'[p].pc # "await" /\ pass'[p].error.status # 200

\* Ready tasks of other accounts come after the current task of pass p.
OthersRemain(p) ==
  \E n \in DOMAIN pass[p].ready :
    /\ n > pass[p].idx
    /\ tasks[pass[p].ready[n]].accountId # tasks[Current(p)].accountId

\* C20: when the call of a ready task fails, or the store fails while that
\* failure is recorded, the pass goes on with the ready tasks that remain.
C20_FailureIsContained ==
  [][\A p \in Passes :
       Fails(p) /\ OthersRemain(p) =>
         /\ pass'[p].pc = "check"
         /\ pass'[p].idx = pass[p].idx + 1
         /\ pass'[p].ready = pass[p].ready]_vars

\* C21: an invocation that has ended has its operation recorded either as
\* completed, with exactly one bank.sync.completed event and no
\* bank.sync.failed event of the operation, or as failed, with exactly one
\* bank.sync.failed event and no bank.sync.completed event.
C21_OneOutcomeEvent ==
  \A i \in Invocations :
    sync[i].pc = "done" =>
      \/ /\ op[i].status = "completed"
         /\ streams.completed[i] = 1 /\ streams.failed[i] = 0
      \/ /\ op[i].status = "failed"
         /\ streams.failed[i] = 1 /\ streams.completed[i] = 0

\* The suspension of account a (gc:ratelimit:{a}) lies in the future.
Suspended(a) == limits.ratelimit[a] > clock

\* The step of invocation i that issues the transactions fetch of an attempt.
Fetches(i) ==
  sync[i].pc = "attempt" /\ sync'[i] # sync[i] /\ sync'[i].pc # "crashed"

\* C22: while the suspension of an account lies in the future no provider
\* call is issued for it, neither by a pass of the scheduler nor by the
\* fetch of a sync attempt.
C22_NoCallWhileSuspended ==
  [][/\ \A p \in Passes :
          Dispatches(p) => ~Suspended(tasks[Current(p)].accountId)
     /\ \A i \in Invocations :
          Fetches(i) => ~Suspended(AccountOf(i))]_vars

\* What loadPendingTasks would have to find: one member per task of the
\* in-memory queue, as that task is now.
Mirror(q, ts) == {Member(q[n], ts[q[n]]) : n \in DOMAIN q}

\* C23: when no pass is running and none was cut short by an error (after
\* every completed enqueue and every completed tick), the sorted set
\* scheduler:queue holds exactly one member per task of the in-memory
\* queue, with its next-run-time and retry count, and nothing else.
C23_PersistedMirrorsMemory ==
  (\A p \in Passes : pass[p] = NoPass) => zset = Mirror(queue, tasks)

\* The step in which pass p starts and takes its list of ready tasks.
Starts(p) == pass[p].pc = "idle" /\ pass'[p].pc = "check"

\* Task t comes before task u in the order of the priority queue:
\* next-run-time first, then enqueue order.
Before(ts, t, u) ==
  \/ ts[t].nextRunTime < ts[u].nextRunTime
  \/ ts[t].nextRunTime = ts[u].nextRunTime /\ t < u

\* C24: the ready tasks of a tick are taken, and so dispatched, in
\* non-decreasing order of next-run-time, ties in enqueue order.
C24_DispatchedInOrder ==
  [][\A p \in Passes :
       Starts(p) =>
         \A m, n \in DOMAIN pass'[p].ready :
           m < n => Before(tasks, pass'[p].ready[m], pass'[p].ready[n])]_vars

\* The first instant of the minute bucket after the one of time t: the
\* first time at which a new gc:global key applies.
NextMinuteBucket(t) == (MinuteOf(t) + 1) * MINUTE

\* C25: when the per-minute counter is at MAX_REQUESTS_PER_MINUTE and
\* neither the suspension nor the daily gate denies, canRunTask denies and
\* reports the start of the next minute bucket.
C25_DeniedUntilNextBucket ==
  \A a \in Accounts :
    LET c == CanRunTask(limits, a, clock)
    IN (/\ limits.global[MinuteOf(clock)] >= MAX_REQUESTS_PER_MINUTE
        /\ ~Suspended(a)
        /\ limits.daily[a][DayOf(clock)] < DAILY_LIMIT)
         => ~c.allowed /\ c.nextAvailableTime = NextMinuteBucket(clock)

\* The step of pass p in which the retry handler counts a failure of the
\* current task and leaves it with retry count k.
Retries(p, k) ==
  /\ pass[p].pc = "await" /\ pass'[p].pc # "await"
  /\ pass'[p].error.status = 500
  /\ tasks'[Current(p)].retryCount = tasks[Current(p)].retryCount + 1
  /\ tasks'[Current(p)].retryCount = k

\* C26: a non-rate-limit failure that leaves the task with retry count k,
\* k = 1 or 2, sets its next-run-time to the time of the tick plus one
\* minute times 2^k; nothing but the task with this time and count is
\* written to the persisted queue, and it is written when the handler
\* returns.
C26_BackoffDoubles ==
  [][\A p \in Passes, k \in {1, 2} :
       Retries(p, k) =>
         LET t == Current(p)
             delay == IF k = 1 THEN 2 * MINUTE ELSE 4 * MINUTE
         IN /\ tasks'[t].nextRunTime = pass[p].now + delay
            /\ zset' \ zset \subseteq {Member(t, tasks'[t])}
            /\ pass'[p].pc = "check" =>
                 \E m \in zset' :
                   /\ m.id = t /\ m.retryCount = k
                   /\ m.nextRunTime = pass[p].now + delay]_vars

\* A task has failed twice: it is due four minutes after its second tick,
\* and the persisted queue holds it so.
C26_SecondRetryWitness ==
  \E t \in TaskIds :
    /\ tasks[t].retryCount = 2
    /\ tasks[t].nextRunTime = 6 * MINUTE
    /\ Member(t, tasks[t]) \in zset

\* executeSyncWithRetry of invocation i goes round its loop in this step.
Reattempts(i) ==
  sync[i].attempt >= 1 /\ sync'[i].attempt = sync[i].attempt + 1

\* The attempt of invocation i that is under way ends in this step with an
\* error and no attempt follows it.
GivesUp(i) ==
  Attempting(i) /\ sync[i].attempt = MAX_RETRIES /\ sync'[i].pc = "release"
    /\ sync'[i].k = 0

\* C27: executeSyncWithRetry makes at most MAX_RETRIES attempts, starts
\* another attempt only while one is under way that fails, never after a
\* 429 answer, and reports the failure of the last attempt.
C27_RetriesOnlyTransient ==
  [][\A i \in Invocations :
       /\ sync'[i].attempt <= MAX_RETRIES
       /\ Reattempts(i) => Attempting(i) /\ ~Throttled(i)
       /\ GivesUp(i) => sync'[i].error]_vars

\* C28: the transactions an attempt has processed never number more than
\* maxTransactionsPerSync, and no transaction is taken up for emission once
\* the cap is reached.
C28_CapNeverExceeded ==
  \A i \in Invocations :
    /\ sync[i].processed <= maxTransactionsPerSync
    /\ sync[i].pc = "emit" => sync[i].processed < maxTransactionsPerSync

\* The setCursor call after the page of invocation i returns in this step.
SetsAfterPage(i) ==
  /\ sync[i].pc = "tx" /\ sync[i].k > Len(sync[i].page)
  /\ Len(sync[i].page) > 0 /\ sync'[i].pc = "final"

\* The final setCursor call of invocation i returns in this step.
SetsFinal(i) ==
  sync[i].pc = "final" /\ sync'[i].pc = "release" /\ ~sync'[i].error

\* C29: when a setCursor call of executeSync returns, the fields it did not
\* supply (the provider cursor always, the last transaction reference in
\* the final call) have the value they had before, updatedAt is the time of
\* the call, and the checkpoint equals the cursor.
C29_SetCursorMerges ==
  [][\A i \in Invocations :
       (SetsAfterPage(i) \/ SetsFinal(i)) =>
         LET a == AccountOf(i)
         IN /\ cursor'[a].cursor = cursor[a].cursor
            /\ SetsFinal(i) => cursor'[a].lastTxnRef = cursor[a].lastTxnRef
            /\ cursor'[a].updatedAt = today
            /\ checkpoint'[a] = cursor'[a]]_vars

\* restoreFromCheckpoint(a) returns in this step.
Restores(a) == Len(hist'.restored[a]) = Len(hist.restored[a]) + 1

\* What the call of this step returns: the checkpoint, NoCursor for null.
RestoreResult(a) == hist'.restored[a][Len(hist'.restored[a])]

\* C30: when restoreFromCheckpoint returns a checkpoint, sinceISO, cursor
\* and lastTxnRef of the cursor are those of the checkpoint; when it
\* returns null, the cursor is as before.
C30_RestoreYieldsCheckpoint ==
  [][\A a \in Accounts :
       Restores(a) =>
         IF RestoreResult(a) = NoCursor
         THEN cursor'[a] = cursor[a]
         ELSE /\ cursor'[a].sinceISO = RestoreResult(a).sinceISO
              /\ cursor'[a].cursor = RestoreResult(a).cursor
              /\ cursor'[a].lastTxnRef = RestoreResult(a).lastTxnRef]_vars

----------------------------------------------------------------------------
(* Properties of the consumer group *)

\* The entry consumer c is at.
Entry(c) == consumer[c].batch[consumer[c].n]

\* The handler of consumer c throws in this step.
HandlerFails(c) ==
  /\ consumer[c].pc = "handle" /\ consumer[c].n <= Len(consumer[c].batch)
  /\ entries'[Entry(c)].handled = entries[Entry(c)].handled + 1
  /\ entries'[Entry(c)].failed

\* Entry m is acknowledged in this step.
Acks(m) == entries[m].state # "acked" /\ entries'[m].state = "acked"

\* C31: consumeEvents acknowledges an entry only after its handler has
\* returned for it without an error; an entry whose handler failed stays
\* pending, and the loop goes on to the next entry of the batch.
C31_AckOnlyAfterSuccess ==
  [][/\ \A m \in Messages :
          /\ Acks(m) => /\ entries[m].handled >= 1 /\ ~entries[m].failed
                         /\ consumer[entries[m].owner].pc = "ack"
                         /\ consumer[entries[m].owner].autoAck
          /\ entries'[m].failed => entries'[m].state = "pending"
     /\ \A c \in Consumers :
          HandlerFails(c) =>
            consumer'[c] = [consumer[c] EXCEPT !.n = @ + 1]]_vars

\* In one batch the handler failed for the first entry, which is pending,
\* and the second entry was handled and acknowledged after it.
C31_Witness ==
  \E m, k \in Messages :
    /\ m < k /\ entries[m].owner = entries[k].owner
    /\ entries[m].failed /\ entries[m].state = "pending"
    /\ entries[k].state = "acked"

\* C32: an entry whose handler failed is handed to a handler of the group
\* again, as long as the loops keep running.
C32_FailedIsRedelivered ==
  \A m \in Messages : entries[m].failed ~> entries[m].handled >= 2

----------------------------------------------------------------------------
(* Properties of the webhook handler *)

\* Request h arrives in this step.
Arrives(h) == hook[h].pc = "idle" /\ hook'[h].pc # "idle"

\* The signature of request h does not verify: no secret is configured, the
\* header is missing, or it was made with another key.
Unverified(r) == r.secret = 0 \/ r.signature # r.secret

\* C33: a request whose signature does not verify, or that arrives when no
\* secret is configured, is answered 401 at once; neither its arrival nor
\* any later step of it writes a replay marker or emits an event.
C33_RejectedChangesNothing ==
  [][\A h \in Hooks :
       /\ (Arrives(h) /\ Unverified(hook'[h])) =>
            /\ hook'[h].pc = "done" /\ hook'[h].status = 401
            /\ replay' = replay /\ streams' = streams
       /\ (hook[h].pc # "idle" /\ Unverified(hook[h])) => hook'[h] = hook[h]]_vars

\* Requests with a wrong signature, or with none, have been rejected while a
\* replay marker of another request exists.
C33_Witness ==
  \E h, g \in Hooks :
    /\ hook[h].status = 401 /\ hook[h].secret # 0
    /\ hook[h].signature \notin {0, hook[h].secret}
    /\ hook[g].status = 200 /\ replay # {}
    /\ \E n \in DOMAIN hook[h].events : hook[h].events[n] \notin replay

\* C37: the replay marker of an event id is there only while the event is
\* being handled or after a handling of it that did not fail.
C37_MarkerOnlyAfterSuccess ==
  \A e \in replay :
    Processing(e) > 0 \/ whist.threw[e] < whist.runs[e]

----------------------------------------------------------------------------
(* Further properties of the sync pipeline *)

\* C34: an operation that has been marked completed or failed keeps that
\* status.
C34_OutcomeIsFinal ==
  [][\A i \in Invocations :
       op[i].status \in {"completed", "failed"} =>
         op'[i].status = op[i].status]_vars

----------------------------------------------------------------------------
(* Further properties of the scheduler *)

\* Pass p is between the start of processTasks and its return.
Running(p) == pass[p].pc # "idle"

\* Pass p has issued the provider call of task t and awaits the answer.
Calling(p, t) == pass[p].pc = "await" /\ Current(p) = t

\* C35: at most one processTasks pass runs at a time, and no task has the
\* provider calls of two passes in flight.
C35_OnePassAtATime ==
  \A p, q \in Passes :
    p # q =>
      /\ ~(Running(p) /\ Running(q))
      /\ \A t \in TaskIds : ~(Calling(p, t) /\ Calling(q, t))

\* C36: once stop() has returned no pass issues a provider call, and no
\* step of a pass changes the persisted queue or the rate-limit keys.
C36_QuietAfterStop ==
  [][~isRunning =>
       \A p \in Passes :
         /\ ~Dispatches(p)
         /\ pass'[p] # pass[p] => zset' = zset /\ limits' = limits]_vars

\* C38: the transactionCount of the bank.sync.completed event of an
\* operation is the number of bank.tx.created events emitted for it, over
\* all attempts.
C38_CountMatchesEmitted ==
  \A i \in Invocations :
    streams.completed[i] >= 1 => hist.transactionCount[i] = hist.emitted[i]

\* C39: the provider calls issued for an account on a day, those recorded
\* before the scheduler started included, never number more than DAILY_LIMIT.
C39_DailyLimitHolds ==
  \A a \in Accounts : \A d \in DayKeys : shist.issued[a][d] <= DAILY_LIMIT

\* A step of the attempt that writes the upper bound of its range as the
\* cursor's sinceISO.
AdvancesCursor(i) ==
  LET a == sync[i].accountId
  IN /\ sync[i].pc \in {"tx", "final"}
     /\ sync'[i] # sync[i]
     /\ cursor'[a] # cursor[a]
     /\ cursor'[a].sinceISO = sync[i].to

\* C40: when an attempt advances the cursor's sinceISO to the upper bound of
\* its range, every transaction the provider held for the range has been
\* emitted or recognised as a duplicate, also when the cap is reached.
C40_AdvanceCoversRange ==
  [][\A i \in Invocations :
       AdvancesCursor(i) =>
         \A r \in hist.held[i] : streams.created[r] >= 1 \/ r \in hist.skipped]_vars

\* An attempt that went past the cap on a page of two has advanced the cursor.
C40_Witness ==
  \E i \in Invocations :
    /\ sync[i].pc = "release"
    /\ Len(sync[i].page) = NumTx
    /\ sync[i].processed >= maxTransactionsPerSync
    /\ cursor[sync[i].accountId].sinceISO = sync[i].to

====
